---- MODULE Spec2Model ----
(***************************************************************************)
(* A model of numpy/core/src/multiarray/reduction.c: the generic reduction *)
(* engine (result allocation / conforming, first-element seeding for       *)
(* reductions with no identity, and the PyArray_ReduceWrapper control      *)
(* flow).                                                                  *)
(*                                                                         *)
(* Arrays are records (nd, dims, strides, data origin, mask fields) kept   *)
(* in an object store 'arr'; the storage they point into is kept in 'heap' *)
(* as functions from byte offsets to contents.  Axes are numbered from 0   *)
(* as in the C code, so dims/strides are functions on 0..nd-1.             *)
(*                                                                         *)
(* An operand element's value is its C-order flat index plus one (so the   *)
(* 2x3 operand is [[1,2,3],[4,5,6]]).  A result cell holds the sequence of *)
(* values that were combined into it: <<>> is the operation's identity,    *)
(* <<v>> a copied seed, and the inner loop appends.  Sum and maximum of    *)
(* a cell are read off that sequence.                                      *)
(***************************************************************************)
EXTENDS Integers, Sequences, FiniteSets, TLC

\* Bounds of the model
MaxNdim == 2
MaxDim == 2
MaxSize == 4

\* dtype->elsize of the modelled element type, and of the boolean mask
ElSize == 2
MaskElSize == 1

VARIABLES
    pc,               \* position in the current call
    args,             \* the call's parameters
    arr,              \* object store: object id -> array record
    heap,             \* storage: buffer name -> (byte offset -> content)
    use_maskna,       \* local of PyArray_ReduceWrapper
    result,           \* local: object id or "NULL"
    op_view,          \* local: object id or "NULL"
    skip_first_count, \* local
    seed,             \* locals of initialize_reduce_result_noidentity_skipna
    ret,              \* returned object id, "NULL" on failure, "none" while running
    err,              \* error raised, "none" if none
    refcnt,           \* reference counts of the objects
    events,           \* the collaborators called so far, in order
    orig              \* the caller's operand and output as they were at the call

vars == <<pc, args, arr, heap, use_maskna, result, op_view, skip_first_count,
          seed, ret, err, refcnt, events, orig>>

-----------------------------------------------------------------------------
\* Arithmetic helpers

RECURSIVE ProdOver(_, _)
ProdOver(f, S) ==
    IF S = {} THEN 1
    ELSE LET i == CHOOSE x \in S : TRUE IN f[i] * ProdOver(f, S \ {i})

RECURSIVE SumOver(_, _)
SumOver(f, S) ==
    IF S = {} THEN 0
    ELSE LET i == CHOOSE x \in S : TRUE IN f[i] + SumOver(f, S \ {i})

Abs(x) == IF x < 0 THEN -x ELSE x

-----------------------------------------------------------------------------
\* Arrays

Axes(nd) == 0 .. (nd - 1)

NullArr ==
    [nd |-> 0, dims |-> <<>>, strides |-> <<>>, data |-> 0, buf |-> "null",
     hasmask |-> FALSE, maskna_strides |-> <<>>, maskna_data |-> 0,
     mbuf |-> "null", base |-> "NULL"]

PyArray_SIZE(a) == ProdOver(a.dims, Axes(a.nd))

PyArray_HASMASKNA(a) == a.hasmask

\* All index tuples of a shape
Coords(nd, dims) ==
    {c \in [Axes(nd) -> 0 .. MaxSize] : \A i \in Axes(nd) : c[i] < dims[i]}

DataOff(a, c) == a.data + SumOver([i \in Axes(a.nd) |-> c[i] * a.strides[i]], Axes(a.nd))

MaskOff(a, c) ==
    a.maskna_data + SumOver([i \in Axes(a.nd) |-> c[i] * a.maskna_strides[i]], Axes(a.nd))

\* C-order flat index of an index tuple
CIndex(nd, dims, c) ==
    SumOver([i \in Axes(nd) |-> c[i] * ProdOver(dims, (i + 1) .. (nd - 1))], Axes(nd))

\* Contiguous strides, row-major ("C") or column-major ("F")
ContigStrides(nd, dims, el, order) ==
    [i \in Axes(nd) |->
        IF order = "C" THEN el * ProdOver(dims, (i + 1) .. (nd - 1))
        ELSE el * ProdOver(dims, 0 .. (i - 1))]

NewArray(nd, dims, order, buf, hasmask, mbuf) ==
    [nd |-> nd, dims |-> dims,
     strides |-> ContigStrides(nd, dims, ElSize, order),
     data |-> 0, buf |-> buf, hasmask |-> hasmask,
     maskna_strides |-> IF hasmask THEN ContigStrides(nd, dims, MaskElSize, order)
                        ELSE [i \in Axes(nd) |-> 0],
     maskna_data |-> 0, mbuf |-> IF hasmask THEN mbuf ELSE "null",
     base |-> "NULL"]

DataOffsets(a) == {DataOff(a, c) : c \in Coords(a.nd, a.dims)}
MaskOffsets(a) == {MaskOff(a, c) : c \in Coords(a.nd, a.dims)}

\* Reads outside a buffer yield an indeterminate value
Garbage == <<0>>
Rd(b, off) == IF off \in DOMAIN b THEN b[off] ELSE Garbage
RdMask(b, off) == IF off \in DOMAIN b THEN b[off] ELSE FALSE

\* NpyMaskValue_IsExposed: the mask byte's low bit
NpyMaskValue_IsExposed(m) == m

-----------------------------------------------------------------------------
\* Inputs

\* One-dimensional arrays are up to MaxSize long, the others up to MaxDim a side
Shapes(n) ==
    {d \in [Axes(n) -> 0 .. (IF n = 1 THEN MaxSize ELSE MaxDim)] :
        ProdOver(d, Axes(n)) <= MaxSize}

\* The value of the operand element at an index tuple
Val(a, c) == CIndex(a.nd, a.dims, c) + 1

OperandData(a) ==
    [off \in DataOffsets(a) |->
        Val(a, CHOOSE c \in Coords(a.nd, a.dims) : DataOff(a, c) = off)]

\* Previous content of a caller-supplied output
OldValue == <<0>>

ObjIds == {"operand", "out", "result", "op_view", "initialized"}

\* What a call holds references to: the arrays, the seeder's iterator and its
\* transfer data
Resources == ObjIds \cup {"iter", "transferdata"}

EmptyHeap ==
    [operand |-> <<>>, operand_mask |-> <<>>, out |-> <<>>, out_mask |-> <<>>,
     result |-> <<>>, result_mask |-> <<>>, view_mask |-> <<>>,
     initialized |-> <<>>]

NoSeed == [perm |-> <<>>, coalesced |-> FALSE, chunk |-> 0, nchunks |-> 0,
           initialized_countdown |-> 0, writes |-> <<>>]

\* The state of a call of PyArray_ReduceWrapper at position p with the local
\* use_maskna holding um, nothing created yet
EntryAt(p, um, a, opmask, o, omask, cargs) ==
    /\ pc = p
    /\ args = cargs
    /\ arr = [id \in ObjIds |->
                IF id = "operand" THEN a
                ELSE IF id = "out" /\ cargs.out # "NULL" THEN o
                ELSE NullArr]
    /\ heap = [EmptyHeap EXCEPT
                !.operand = OperandData(a),
                !.operand_mask = opmask,
                !.out = IF cargs.out # "NULL"
                        THEN [off \in DataOffsets(o) |-> OldValue] ELSE <<>>,
                !.out_mask = omask]
    /\ use_maskna = um
    /\ result = "NULL"
    /\ op_view = "NULL"
    /\ skip_first_count = 0
    /\ seed = NoSeed
    /\ ret = "none"
    /\ err = "none"
    /\ refcnt = [id \in Resources |->
                   IF id = "operand" \/ (id = "out" /\ cargs.out # "NULL")
                   THEN 1 ELSE 0]
    /\ events = <<>>
    /\ orig = [arr |-> arr, heap |-> heap]

\* The state at entry to a call of PyArray_ReduceWrapper
Entry(a, opmask, o, omask, cargs) == EntryAt("validate", FALSE, a, opmask, o, omask, cargs)

Operands ==
    UNION {{NewArray(n, d, order, "operand", hm, "operand_mask") :
                d \in Shapes(n), order \in {"C", "F"}, hm \in BOOLEAN} :
           n \in 0 .. MaxNdim}

Outputs ==
    UNION {{NewArray(n, d, "C", "out", hm, "out_mask") :
                d \in Shapes(n), hm \in BOOLEAN} :
           n \in 0 .. MaxNdim}

MaskContents(a) ==
    IF a.hasmask THEN [MaskOffsets(a) -> BOOLEAN] ELSE {<<>>}

\* A caller-supplied output's mask is uniformly exposed or uniformly hidden
OutMaskContents(o) ==
    IF o.hasmask THEN {[off \in MaskOffsets(o) |-> b] : b \in BOOLEAN} ELSE {<<>>}

\* Parameters of a call; a boolean for a pointer parameter says it is non-NULL
CallArgs(a, outs) ==
    [out : outs,
     wheremask : {FALSE}, skipwhichna : {FALSE},
     axis_flags : [Axes(a.nd) -> BOOLEAN],
     reorderable : BOOLEAN, skipna : BOOLEAN, keepdims : BOOLEAN,
     assign_identity : BOOLEAN,
     loop : {TRUE}, masked_loop : {TRUE}, advanced_masked_loop : BOOLEAN]

NFlagged(nd, flags) == Cardinality({i \in Axes(nd) : flags[i]})

\* The k-th (from 0) axis that is not flagged
RECURSIVE KthUnflagged(_, _, _)
KthUnflagged(flags, k, from) ==
    IF ~flags[from] THEN (IF k = 0 THEN from ELSE KthUnflagged(flags, k - 1, from + 1))
    ELSE KthUnflagged(flags, k, from + 1)

\* The output a caller passes when it follows the documented shape rules
ExpectedOut(a, cargs, hm) ==
    IF cargs.keepdims
    THEN NewArray(a.nd, [i \in Axes(a.nd) |-> IF cargs.axis_flags[i] THEN 1 ELSE a.dims[i]],
                  "C", "out", hm, "out_mask")
    ELSE LET n == a.nd - NFlagged(a.nd, cargs.axis_flags) IN
         NewArray(n, [k \in Axes(n) |-> a.dims[KthUnflagged(cargs.axis_flags, k, 0)]],
                  "C", "out", hm, "out_mask")

\* Calls with outputs of every shape are made on row-major operands whose mask,
\* if any, hides nothing
OutputsFor(a, opmask, cargs) ==
    IF cargs.out = "NULL" THEN {NullArr}
    ELSE {ExpectedOut(a, cargs, hm) : hm \in BOOLEAN}
         \cup (IF /\ a = NewArray(a.nd, a.dims, "C", "operand", a.hasmask, "operand_mask")
                  /\ \A off \in DOMAIN opmask : opmask[off]
                  /\ cargs.reorderable /\ cargs.advanced_masked_loop
               THEN Outputs ELSE {})

\* The 2x3 operand [[1,2,3],[4,5,6]] of the documented scenarios
ScenarioOperand ==
    NewArray(2, [i \in Axes(2) |-> i + 2], "C", "operand", FALSE, "operand_mask")

Init ==
    \E a \in Operands \cup {ScenarioOperand} : \E opmask \in MaskContents(a) :
    \E cargs \in CallArgs(a, {"NULL", "out"}) :
    \E o \in OutputsFor(a, opmask, cargs) : \E omask \in OutMaskContents(o) :
        Entry(a, opmask, o, omask, cargs)

-----------------------------------------------------------------------------
\* Reference counting

Py_INCREF(rc, id) == [rc EXCEPT ![id] = @ + 1]

\* Dropping the last reference to a view also drops its reference to its base
Py_DECREF(rc, id) ==
    IF rc[id] = 1 /\ arr[id].base # "NULL"
    THEN [rc EXCEPT ![id] = 0, ![arr[id].base] = @ - 1]
    ELSE [rc EXCEPT ![id] = @ - 1]

Py_XDECREF(rc, id) == IF id = "NULL" THEN rc ELSE Py_DECREF(rc, id)

-----------------------------------------------------------------------------
\* Result allocation and conforming

\* PyArray_CreateSortedStridePerm: the axes from the largest stride magnitude
\* to the smallest, equal magnitudes in axis order.  Position k of the
\* permutation holds the axis that has exactly k axes before it.
StrideBefore(a, i, j) ==
    \/ Abs(a.strides[i]) > Abs(a.strides[j])
    \/ (Abs(a.strides[i]) = Abs(a.strides[j]) /\ i < j)

PyArray_CreateSortedStridePerm(a) ==
    [k \in Axes(a.nd) |->
        CHOOSE i \in Axes(a.nd) :
            Cardinality({j \in Axes(a.nd) : j # i /\ StrideBefore(a, j, i)}) = k]

\* Variant: the loop without "stride *= shape[i_perm]"
RECURSIVE BuildReduceStrides_no_advance(_, _, _, _)
BuildReduceStrides_no_advance(strideperm, axis_flags, idim, st) ==
    IF idim < 0 THEN st
    ELSE LET i_perm == strideperm[idim] IN
         IF axis_flags[i_perm]
         THEN BuildReduceStrides_no_advance(strideperm, axis_flags, idim - 1,
                [st EXCEPT !.strides[i_perm] = 0, !.shape[i_perm] = 1])
         ELSE BuildReduceStrides_no_advance(strideperm, axis_flags, idim - 1,
                [st EXCEPT !.strides[i_perm] = st.stride])

\* The loop of allocate_reduce_result from idim = ndim-1 down to 'idim':
\* st is [strides, shape, stride]
RECURSIVE BuildReduceStrides(_, _, _, _)
BuildReduceStrides(strideperm, axis_flags, idim, st) ==
    IF idim < 0 THEN st
    ELSE LET i_perm == strideperm[idim] IN
         IF axis_flags[i_perm]
         THEN BuildReduceStrides(strideperm, axis_flags, idim - 1,
                [st EXCEPT !.strides[i_perm] = 0, !.shape[i_perm] = 1])
         ELSE BuildReduceStrides(strideperm, axis_flags, idim - 1,
                [st EXCEPT !.strides[i_perm] = st.stride,
                           !.stride = st.stride * st.shape[i_perm]])

\* allocate_reduce_result without the "shape[i_perm] = 1" of the flagged axes:
\* the new array keeps the operand's shape
allocate_reduce_result_keeps_shape(a, axis_flags) ==
    NewArray(a.nd, a.dims, "C", "result", FALSE, "null")

allocate_reduce_result(a, axis_flags) ==
    LET st == BuildReduceStrides(PyArray_CreateSortedStridePerm(a), axis_flags,
                                 a.nd - 1,
                                 [strides |-> [i \in Axes(a.nd) |-> 0],
                                  shape |-> a.dims, stride |-> ElSize])
    IN [NullArr EXCEPT !.nd = a.nd, !.dims = st.shape, !.strides = st.strides,
                       !.maskna_strides = [i \in Axes(a.nd) |-> 0],
                       !.buf = "result"]

\* PyArray_AllocateMaskNA(arr, ownmaskna=1, multina=0, defaultmask=1): a boolean
\* mask of the array's own, laid out like the data
PyArray_AllocateMaskNA(a, mbuf) ==
    [a EXCEPT !.hasmask = TRUE, !.mbuf = mbuf, !.maskna_data = 0,
              !.maskna_strides = [i \in Axes(a.nd) |-> (a.strides[i] \div ElSize) * MaskElSize]]

\* The keepdims test that looks at the number of dimensions only
ConformKeepdimsOk_ndim_only(ndim, axis_flags, o) == o.nd = ndim

\* conform_reduce_result.  Returns [err, id, view]: with keepdims the output
\* itself (id "out"), otherwise a new view of it (id "result").
ConformKeepdimsOk(ndim, axis_flags, o) ==
    /\ o.nd = ndim
    /\ \A idim \in Axes(ndim) : axis_flags[idim] => o.dims[idim] = 1

\* idim_out advanced on flagged axes too
IdimOut_counts_all(axis_flags, idim) == idim

\* idim_out on reaching axis idim in the loop that builds the view
IdimOut(axis_flags, idim) == Cardinality({j \in 0 .. (idim - 1) : ~axis_flags[j]})

conform_reduce_result(ndim, axis_flags, o, keepdims) ==
    IF keepdims
    THEN IF ConformKeepdimsOk(ndim, axis_flags, o)
         THEN [err |-> "none", id |-> "out", view |-> o]
         ELSE [err |-> "ShapeError", id |-> "NULL", view |-> NullArr]
    ELSE IF \E idim \in Axes(ndim) :
                ~axis_flags[idim] /\ IdimOut(axis_flags, idim) >= o.nd
         THEN [err |-> "ShapeError", id |-> "NULL", view |-> NullArr]
         ELSE IF IdimOut(axis_flags, ndim) # o.nd
         THEN [err |-> "ShapeError", id |-> "NULL", view |-> NullArr]
         ELSE [err |-> "none", id |-> "result",
               view |->
                 [nd |-> ndim,
                  dims |-> [idim \in Axes(ndim) |->
                              IF axis_flags[idim] THEN 1
                              ELSE o.dims[IdimOut(axis_flags, idim)]],
                  strides |-> [idim \in Axes(ndim) |->
                              IF axis_flags[idim] THEN 0
                              ELSE o.strides[IdimOut(axis_flags, idim)]],
                  data |-> o.data, buf |-> o.buf,
                  hasmask |-> PyArray_HASMASKNA(o),
                  maskna_strides |-> [idim \in Axes(ndim) |->
                              IF axis_flags[idim] \/ ~PyArray_HASMASKNA(o) THEN 0
                              ELSE o.maskna_strides[IdimOut(axis_flags, idim)]],
                  maskna_data |-> IF PyArray_HASMASKNA(o) THEN o.maskna_data ELSE 0,
                  mbuf |-> IF PyArray_HASMASKNA(o) THEN o.mbuf ELSE "null",
                  base |-> "out"]]

\* PyArray_CreateReduceResult without the test of the output's mask
PyArray_CreateReduceResult_no_mask_test(operand, out, axis_flags, need_namask, keepdims) ==
    IF out = "NULL"
    THEN LET r == allocate_reduce_result(operand, axis_flags) IN
         [err |-> "none", id |-> "result",
          view |-> IF need_namask THEN PyArray_AllocateMaskNA(r, "result_mask") ELSE r]
    ELSE conform_reduce_result(operand.nd, axis_flags, arr[out], keepdims)

\* PyArray_CreateReduceResult.  Returns [err, id, view]
PyArray_CreateReduceResult(operand, out, axis_flags, need_namask, keepdims) ==
    IF out = "NULL"
    THEN LET r == allocate_reduce_result(operand, axis_flags) IN
         [err |-> "none", id |-> "result",
          view |-> IF need_namask THEN PyArray_AllocateMaskNA(r, "result_mask") ELSE r]
    ELSE IF need_namask /\ ~PyArray_HASMASKNA(arr[out])
         THEN [err |-> "MaskSupportError", id |-> "NULL", view |-> NullArr]
         ELSE conform_reduce_result(operand.nd, axis_flags, arr[out], keepdims)

-----------------------------------------------------------------------------
\* PyArray_ReduceWrapper, step by step

\* The 'fail:' label: release what the call holds and return NULL
Fail(e, rc) ==
    /\ err' = e
    /\ ret' = "NULL"
    /\ pc' = "done"
    /\ refcnt' = Py_XDECREF(Py_XDECREF(rc, result), op_view)

\* Parameter validation
RW_Validate ==
    /\ pc = "validate"
    /\ IF args.wheremask \/ args.skipwhichna
       THEN /\ err' = "ConfigurationError"
            /\ ret' = "NULL"
            /\ pc' = "done"
       ELSE /\ pc' = "maskcheck"
            /\ UNCHANGED <<err, ret>>
    /\ UNCHANGED <<args, arr, heap, use_maskna, result, op_view, skip_first_count,
                   seed, refcnt, events, orig>>

\* PyArray_ContainsNA
PyArray_ContainsNA(a) ==
    \E c \in Coords(a.nd, a.dims) :
        ~NpyMaskValue_IsExposed(RdMask(heap[a.mbuf], MaskOff(a, c)))

\* The check without "use_maskna = 0": the mask stays in use after an operand
\* without hidden elements has been let through
RW_MaskCheck_keeps_mask ==
    /\ pc = "maskcheck"
    /\ LET um == PyArray_HASMASKNA(arr["operand"]) IN
       IF um /\ ~args.skipna /\ args.out # "NULL" /\ ~PyArray_HASMASKNA(arr[args.out])
       THEN /\ events' = Append(events, "ContainsNA")
            /\ IF PyArray_ContainsNA(arr["operand"])
               THEN /\ Fail("MaskSupportError", refcnt)
                    /\ UNCHANGED use_maskna
               ELSE /\ use_maskna' = um
                    /\ pc' = "create"
                    /\ UNCHANGED <<err, ret, refcnt>>
       ELSE /\ use_maskna' = um
            /\ pc' = "create"
            /\ UNCHANGED <<err, ret, refcnt, events>>
    /\ UNCHANGED <<args, arr, heap, result, op_view, skip_first_count, seed, orig>>

\* use_maskna, and the check that lets a masked operand go to a maskless output
RW_MaskCheck ==
    /\ pc = "maskcheck"
    /\ LET um == PyArray_HASMASKNA(arr["operand"]) IN
       IF um /\ ~args.skipna /\ args.out # "NULL" /\ ~PyArray_HASMASKNA(arr[args.out])
       THEN /\ events' = Append(events, "ContainsNA")
            /\ IF PyArray_ContainsNA(arr["operand"])
               THEN /\ Fail("MaskSupportError", refcnt)
                    /\ UNCHANGED use_maskna
               ELSE /\ use_maskna' = FALSE
                    /\ pc' = "create"
                    /\ UNCHANGED <<err, ret, refcnt>>
       ELSE /\ use_maskna' = um
            /\ pc' = "create"
            /\ UNCHANGED <<err, ret, refcnt, events>>
    /\ UNCHANGED <<args, arr, heap, result, op_view, skip_first_count, seed, orig>>

\* Build or conform the result
RW_CreateResult ==
    /\ pc = "create"
    /\ LET r == PyArray_CreateReduceResult(arr["operand"], args.out, args.axis_flags,
                                           ~args.skipna /\ use_maskna, args.keepdims)
       IN
       /\ events' = Append(events, "CreateReduceResult")
       /\ IF r.err # "none"
          THEN /\ Fail(r.err, refcnt)
               /\ UNCHANGED <<arr, heap, result>>
          ELSE /\ result' = r.id
               /\ arr' = [arr EXCEPT ![r.id] = r.view]
               /\ heap' = IF args.out = "NULL"
                          THEN [heap EXCEPT
                                  !.result = [off \in DataOffsets(r.view) |-> Garbage],
                                  !.result_mask =
                                      IF r.view.hasmask
                                      THEN [off \in MaskOffsets(r.view) |-> TRUE]
                                      ELSE <<>>]
                          ELSE heap
               /\ refcnt' = IF r.id = "out" THEN Py_INCREF(refcnt, "out")
                             ELSE IF args.out # "NULL"
                             THEN [refcnt EXCEPT !["result"] = 1, !["out"] = @ + 1]
                             ELSE [refcnt EXCEPT !["result"] = 1]
               /\ pc' = "reducemask"
               /\ UNCHANGED <<err, ret>>
    /\ UNCHANGED <<args, use_maskna, op_view, skip_first_count, seed, orig>>

\* Joint iteration of two arrays of equal nd: a dimension of size 1 is
\* broadcast (stride 0) against the other array's
BroadcastOk(a, b) ==
    /\ a.nd = b.nd
    /\ \A i \in Axes(a.nd) : a.dims[i] = b.dims[i] \/ a.dims[i] = 1 \/ b.dims[i] = 1

IterShape(a, b) == [i \in Axes(a.nd) |-> IF a.dims[i] = 1 THEN b.dims[i] ELSE a.dims[i]]

BDataOff(a, c) ==
    a.data + SumOver([i \in Axes(a.nd) |->
                        IF a.dims[i] = 1 THEN 0 ELSE c[i] * a.strides[i]], Axes(a.nd))

BMaskOff(a, c) ==
    a.maskna_data + SumOver([i \in Axes(a.nd) |->
                        IF a.dims[i] = 1 THEN 0 ELSE c[i] * a.maskna_strides[i]], Axes(a.nd))

Exposed(h, a, c) == ~a.hasmask \/ NpyMaskValue_IsExposed(RdMask(h[a.mbuf], BMaskOff(a, c)))

\* PyArray_ReduceMaskNAArray(operand, result): a result cell stays exposed only
\* if every operand element that maps to it is exposed
PyArray_ReduceMaskNAArray(h, operand, res) ==
    [h EXCEPT ![res.mbuf] =
        [off \in DOMAIN @ |->
            IF \E c \in Coords(res.nd, IterShape(res, operand)) : BMaskOff(res, c) = off
            THEN \A c \in Coords(res.nd, IterShape(res, operand)) :
                    BMaskOff(res, c) = off => Exposed(h, operand, c)
            ELSE @[off]]]

\* Variant: the mask reduction without the short circuit that follows it
RW_ReduceMask_no_short_circuit ==
    /\ pc = "reducemask"
    /\ IF use_maskna /\ ~args.skipna
       THEN /\ events' = Append(events, "ReduceMaskNAArray")
            /\ IF ~BroadcastOk(arr[result], arr["operand"])
               THEN /\ Fail("BroadcastError", refcnt)
                    /\ UNCHANGED heap
               ELSE LET h == PyArray_ReduceMaskNAArray(heap, arr["operand"], arr[result]) IN
                    /\ heap' = h
                    /\ pc' = "init"
                    /\ UNCHANGED <<err, ret, refcnt>>
       ELSE /\ pc' = "init"
            /\ UNCHANGED <<heap, err, ret, refcnt, events>>
    /\ UNCHANGED <<args, arr, use_maskna, result, op_view, skip_first_count, seed, orig>>

\* Reduce the mask first; an all-hidden single cell needs no values
RW_ReduceMask ==
    /\ pc = "reducemask"
    /\ IF use_maskna /\ ~args.skipna
       THEN /\ events' = Append(events, "ReduceMaskNAArray")
            /\ IF ~BroadcastOk(arr[result], arr["operand"])
               THEN /\ Fail("BroadcastError", refcnt)
                    /\ UNCHANGED heap
               ELSE LET h == PyArray_ReduceMaskNAArray(heap, arr["operand"], arr[result]) IN
                    /\ heap' = h
                    /\ pc' = IF /\ ~args.advanced_masked_loop
                                /\ PyArray_SIZE(arr[result]) = 1
                                /\ ~NpyMaskValue_IsExposed(
                                        RdMask(h[arr[result].mbuf], arr[result].maskna_data))
                             THEN "finish" ELSE "init"
                    /\ UNCHANGED <<err, ret, refcnt>>
       ELSE /\ pc' = "init"
            /\ UNCHANGED <<heap, err, ret, refcnt, events>>
    /\ UNCHANGED <<args, arr, use_maskna, result, op_view, skip_first_count, seed, orig>>

\* check_nonreorderable_axes: TRUE when more than one axis is flagged
check_nonreorderable_axes(ndim, axis_flags) == NFlagged(ndim, axis_flags) > 1

\* The operation's identity, as a cell content
Identity == <<>>

\* The caller's assign_identity(result, preservena): every cell gets the
\* identity; without preservena the result's mask is set to exposed
assign_identity(h, res, preservena) ==
    LET h1 == [h EXCEPT ![res.buf] =
                  [off \in DOMAIN @ |->
                      IF off \in DataOffsets(res) THEN Identity ELSE @[off]]]
    IN IF res.hasmask /\ ~preservena
       THEN [h1 EXCEPT ![res.mbuf] =
                  [off \in DOMAIN @ |->
                      IF off \in MaskOffsets(res) THEN TRUE ELSE @[off]]]
       ELSE h1

\* Initialise with the identity
RW_AssignIdentity ==
    /\ pc = "init"
    /\ args.assign_identity
    /\ IF ~args.reorderable /\ check_nonreorderable_axes(arr["operand"].nd, args.axis_flags)
       THEN /\ Fail("NotReorderableError", refcnt)
            /\ UNCHANGED <<heap, op_view, events>>
       ELSE /\ heap' = assign_identity(heap, arr[result], ~args.skipna)
            /\ events' = Append(events, "assign_identity")
            /\ op_view' = "operand"
            /\ refcnt' = Py_INCREF(refcnt, "operand")
            /\ pc' = "loop"
            /\ UNCHANGED <<err, ret>>
    /\ UNCHANGED <<args, arr, use_maskna, result, skip_first_count, seed, orig>>

-----------------------------------------------------------------------------
\* PyArray_InitializeReduceResult

\* PyArray_View(operand, NULL, &PyArray_Type): same storage and mask, own shape
PyArray_View(a, base) == [a EXCEPT !.base = base]

\* PyArray_AssignArray(dst, src, NULL, NPY_UNSAFE_CASTING, preservena=1, NULL):
\* src is broadcast to dst; hidden cells of dst keep their value and mask
AssignArrayOk(dst, src) ==
    /\ dst.nd = src.nd
    /\ \A i \in Axes(dst.nd) : src.dims[i] = dst.dims[i] \/ src.dims[i] = 1

\* A maskless dst cannot take a hidden element
AssignArrayNA(h, dst, src) ==
    /\ ~dst.hasmask
    /\ \E c \in Coords(dst.nd, dst.dims) : ~Exposed(h, src, c)

PyArray_AssignArray(h, dst, src) ==
    [h EXCEPT ![dst.buf] =
        [off \in DOMAIN @ |->
            IF \E c \in Coords(dst.nd, dst.dims) :
                    DataOff(dst, c) = off /\ Exposed(h, dst, c) /\ Exposed(h, src, c)
            THEN LET c == CHOOSE c \in Coords(dst.nd, dst.dims) : DataOff(dst, c) = off
                 IN <<Rd(h[src.buf], BDataOff(src, c))>>
            ELSE @[off]]]

\* The scan stopping at the first element whether it is exposed or not
ShrinkFromStart_no_scan(h, v, shape0, k) ==
    [shape0 |-> shape0, data |-> v.data, maskna_data |-> v.maskna_data]

\* The scan of the one-dimensional skipna case: [shape0, data, maskna_data]
RECURSIVE ShrinkFromStart(_, _, _, _)
ShrinkFromStart(h, v, shape0, k) ==
    IF shape0 > 0 /\ ~NpyMaskValue_IsExposed(
                         RdMask(h[v.mbuf], v.maskna_data + k * v.maskna_strides[0]))
    THEN ShrinkFromStart(h, v, shape0 - 1, k + 1)
    ELSE [shape0 |-> shape0,
          data |-> v.data + k * v.strides[0],
          maskna_data |-> v.maskna_data + k * v.maskna_strides[0]]

\* The view with every flagged axis cut to its first element
FirstElements(v, axis_flags) ==
    [v EXCEPT !.dims = [i \in Axes(v.nd) |-> IF axis_flags[i] THEN 1 ELSE v.dims[i]]]

\* The view of the elements after the first along the one flagged axis
DropFirst(v, shape_orig, axis_flags) ==
    LET ax == CHOOSE i \in Axes(v.nd) : axis_flags[i] IN
    [v EXCEPT !.dims[ax] = shape_orig[ax] - 1,
              !.data = @ + v.strides[ax],
              !.maskna_data = IF PyArray_HASMASKNA(v) THEN @ + v.maskna_strides[ax] ELSE @]

EmptyView(v) == [v EXCEPT !.dims = [i \in Axes(v.nd) |-> 0]]

\* Variant: the view shares its shape and origins with the operand, so that
\* adjusting the view adjusts the operand
SetOpView_shared_with_operand(ar, v) ==
    [ar EXCEPT !["op_view"] = v,
               !["operand"] = [@ EXCEPT !.dims = v.dims, !.data = v.data,
                                        !.maskna_data = v.maskna_data]]

\* The adjustments of shape, data origin and mask origin are made in the
\* fields of op_view, an array object of its own
SetOpView(ar, v) == [ar EXCEPT !["op_view"] = v]

\* Variant: one element is skipped whatever the result's size
SkipWholeFirst_one(res) == 1

\* With more than one reduction axis the main loop is told to skip the
\* elements that were copied: as many as the result has
SkipWholeFirst(res) == PyArray_SIZE(res)

\* Which branch of PyArray_InitializeReduceResult a call takes
UsesScatteredSeeder ==
    /\ args.skipna /\ PyArray_HASMASKNA(arr["operand"])
    /\ arr["operand"].nd # 1

\* PyArray_InitializeReduceResult without the multi-dimensional skipna case,
\* and the wrapper's handling of what it returns
RW_InitializeReduceResult ==
    /\ pc = "init"
    /\ ~args.assign_identity
    /\ LET operand == arr["operand"]
           ndim == operand.nd
           plain == ~args.skipna \/ ~PyArray_HASMASKNA(operand)
       IN
       /\ ~(~plain /\ ndim # 1 /\
            ~(~args.reorderable /\ check_nonreorderable_axes(ndim, args.axis_flags)))
       /\ events' = Append(events, "InitializeReduceResult")
       /\ IF ~args.reorderable /\ check_nonreorderable_axes(ndim, args.axis_flags)
          THEN /\ Fail("NotReorderableError", refcnt)
               /\ UNCHANGED <<arr, heap, op_view, skip_first_count>>
          ELSE IF plain /\ PyArray_SIZE(operand) = 0
          THEN /\ Fail("EmptyReductionError", refcnt)
               /\ UNCHANGED <<arr, heap, op_view, skip_first_count>>
          ELSE
            LET v0 == PyArray_View(operand, "operand")
                sc == ShrinkFromStart(heap, v0, v0.dims[0], 0)
                v1 == IF plain THEN v0
                      ELSE [v0 EXCEPT !.dims[0] = sc.shape0, !.data = sc.data,
                                      !.maskna_data = sc.maskna_data]
                shape_orig == v1.dims
                v2 == FirstElements(v1, args.axis_flags)
                nreduce_axes == NFlagged(ndim, args.axis_flags)
                res == arr[result]
            IN
            IF ~plain /\ sc.shape0 = 0
            THEN /\ Fail("AllMissingError", refcnt)
                 /\ UNCHANGED <<arr, heap, op_view, skip_first_count>>
            ELSE IF ~AssignArrayOk(res, v2)
            THEN /\ Fail("BroadcastError", refcnt)
                 /\ UNCHANGED <<arr, heap, op_view, skip_first_count>>
            ELSE IF AssignArrayNA(heap, res, v2)
            THEN /\ Fail("MaskSupportError", refcnt)
                 /\ UNCHANGED <<arr, heap, op_view, skip_first_count>>
            ELSE
              /\ heap' = PyArray_AssignArray(heap, res, v2)
              /\ IF nreduce_axes = 1
                 THEN LET v3 == DropFirst(v2, shape_orig, args.axis_flags) IN
                      /\ arr' = SetOpView(arr, v3)
                      /\ skip_first_count' = 0
                      /\ IF PyArray_SIZE(v3) = 0
                         THEN /\ op_view' = "NULL"
                              /\ refcnt' = refcnt
                              /\ pc' = "finish"
                         ELSE /\ op_view' = "op_view"
                              /\ refcnt' = [refcnt EXCEPT !["op_view"] = 1,
                                                          !["operand"] = @ + 1]
                              /\ pc' = "loop"
                 ELSE IF nreduce_axes = 0
                 THEN LET v3 == EmptyView(v2) IN
                      /\ arr' = SetOpView(arr, v3)
                      /\ skip_first_count' = 0
                      /\ IF PyArray_SIZE(v3) = 0
                         THEN /\ op_view' = "NULL"
                              /\ refcnt' = refcnt
                              /\ pc' = "finish"
                         ELSE /\ op_view' = "op_view"
                              /\ refcnt' = [refcnt EXCEPT !["op_view"] = 1,
                                                          !["operand"] = @ + 1]
                              /\ pc' = "loop"
                 ELSE /\ skip_first_count' = SkipWholeFirst(res)
                      /\ arr' = SetOpView(arr, v2)
                      /\ op_view' = "operand"
                      /\ refcnt' = Py_INCREF(refcnt, "operand")
                      /\ pc' = "loop"
              /\ UNCHANGED <<err, ret>>
    /\ UNCHANGED <<args, use_maskna, result, seed, orig>>

-----------------------------------------------------------------------------
\* initialize_reduce_result_noidentity_skipna

\* The iterator over (operand view, result, initialized).  It visits the index
\* tuples of the broadcast shape with the axes nested in some order 'perm'
\* (perm[nd-1] innermost) and hands out one run along the innermost axis at a
\* time, or the whole iteration as one run when every stream's strides allow
\* the axes to be merged.
Perms(nd) == {p \in [Axes(nd) -> Axes(nd)] : \A i, j \in Axes(nd) : p[i] = p[j] => i = j}

AxStride(dims, strides, i) == IF dims[i] = 1 THEN 0 ELSE strides[i]

\* The four streams' per-axis strides: operand data, result, flags, operand mask
StreamStrides(v, res, ini) ==
    [op  |-> [i \in Axes(v.nd) |-> AxStride(v.dims, v.strides, i)],
     res |-> [i \in Axes(v.nd) |-> AxStride(res.dims, res.strides, i)],
     ini |-> [i \in Axes(v.nd) |-> AxStride(ini.dims, ini.strides, i)],
     msk |-> [i \in Axes(v.nd) |-> AxStride(v.dims, v.maskna_strides, i)]]

CanCoalesce(nd, ishape, perm, ss) ==
    /\ nd >= 2
    /\ \A k \in 0 .. (nd - 2) : \A f \in {"op", "res", "ini", "msk"} :
          ss[f][perm[k]] = ss[f][perm[k + 1]] * ishape[perm[k + 1]]

\* Index of the run's first element along the axis at nesting position k
RunStart(nd, ishape, perm, j, k) ==
    (j \div ProdOver([m \in Axes(nd) |-> ishape[perm[m]]], (k + 1) .. (nd - 2)))
        % ishape[perm[k]]

\* The first index tuple of run j
RunCoord(nd, ishape, perm, coalesced, j) ==
    [i \in Axes(nd) |->
        IF coalesced \/ i = perm[nd - 1] THEN 0
        ELSE RunStart(nd, ishape, perm, j, CHOOSE k \in Axes(nd) : perm[k] = i)]

RunCount(nd, ishape, perm, coalesced) ==
    IF nd = 0 THEN 1
    ELSE IF coalesced THEN ProdOver(ishape, Axes(nd))
    ELSE ishape[perm[nd - 1]]

RunTotal(nd, ishape, perm, coalesced) ==
    IF ProdOver(ishape, Axes(nd)) = 0 THEN 0
    ELSE IF nd = 0 \/ coalesced THEN 1
    ELSE ProdOver([m \in Axes(nd) |-> ishape[perm[m]]], 0 .. (nd - 2))

InnerStride(nd, perm, f) == IF nd = 0 THEN 0 ELSE f[perm[nd - 1]]

\* The zero-stride branch copying the run's first element instead of the
\* exposed one it has found
RECURSIVE CopyAtMostOne_copies_first(_, _, _, _)
CopyAtMostOne_copies_first(st, P, i, count) ==
    IF i >= count THEN st
    ELSE IF /\ Rd(st.h.initialized, P.init_d + i * P.init_s) = 0
            /\ NpyMaskValue_IsExposed(RdMask(st.h.view_mask, P.op_namask_d + i * P.op_namask_s))
         THEN [h |-> [st.h EXCEPT
                        !.initialized[P.init_d + i * P.init_s] = 1,
                        ![P.resbuf][P.res_d] = <<Rd(st.h[P.opbuf], P.op_d)>>],
               cd |-> st.cd - 1,
               stop |-> (st.cd - 1 = 0),
               writes |-> Append(st.writes, <<P.op_d, P.res_d>>)]
         ELSE CopyAtMostOne_copies_first(st, P, i + 1, count)

\* The branch taken when the result's inner stride is 0: st is
\* [h, cd, stop, writes]; P holds the run's pointers and strides
RECURSIVE CopyAtMostOne(_, _, _, _)
CopyAtMostOne(st, P, i, count) ==
    IF i >= count THEN st
    ELSE IF /\ Rd(st.h.initialized, P.init_d + i * P.init_s) = 0
            /\ NpyMaskValue_IsExposed(RdMask(st.h.view_mask, P.op_namask_d + i * P.op_namask_s))
         THEN [h |-> [st.h EXCEPT
                        !.initialized[P.init_d + i * P.init_s] = 1,
                        ![P.resbuf][P.res_d] = <<Rd(st.h[P.opbuf], P.op_d + i * P.op_s)>>],
               cd |-> st.cd - 1,
               stop |-> (st.cd - 1 = 0),
               writes |-> Append(st.writes, <<P.op_d + i * P.op_s, P.res_d>>)]
         ELSE CopyAtMostOne(st, P, i + 1, count)

\* Number of leading elements from k on that are already initialised or hidden
RECURSIVE SkipRun(_, _, _, _)
SkipRun(h, P, k, count) ==
    IF k < count /\ (\/ Rd(h.initialized, P.init_d + k * P.init_s) = 1
                     \/ ~NpyMaskValue_IsExposed(
                            RdMask(h.view_mask, P.op_namask_d + k * P.op_namask_s)))
    THEN SkipRun(h, P, k + 1, count)
    ELSE k

\* The transfer of a run without the countdown's decrement
RECURSIVE TransferRun_no_countdown(_, _, _)
TransferRun_no_countdown(st, P, count) ==
    IF st.k < count /\ (/\ Rd(st.h.initialized, P.init_d + st.k * P.init_s) = 0
                        /\ NpyMaskValue_IsExposed(
                               RdMask(st.h.view_mask, P.op_namask_d + st.k * P.op_namask_s)))
    THEN TransferRun_no_countdown(
            [st EXCEPT
                !.h = [st.h EXCEPT
                         !.initialized[P.init_d + st.k * P.init_s] = 1,
                         ![P.resbuf][P.res_d + st.k * P.res_s] =
                             <<Rd(st.h[P.opbuf], P.op_d + st.k * P.op_s)>>],
                !.writes = Append(@, <<P.op_d + st.k * P.op_s, P.res_d + st.k * P.res_s>>),
                !.k = @ + 1], P, count)
    ELSE st

\* Marks and copies the run of uninitialised exposed elements from k on:
\* st is [h, cd, stop, writes, k]
RECURSIVE TransferRun(_, _, _)
TransferRun(st, P, count) ==
    IF st.k < count /\ (/\ Rd(st.h.initialized, P.init_d + st.k * P.init_s) = 0
                        /\ NpyMaskValue_IsExposed(
                               RdMask(st.h.view_mask, P.op_namask_d + st.k * P.op_namask_s)))
    THEN TransferRun(
            [st EXCEPT
                !.h = [st.h EXCEPT
                         !.initialized[P.init_d + st.k * P.init_s] = 1,
                         ![P.resbuf][P.res_d + st.k * P.res_s] =
                             <<Rd(st.h[P.opbuf], P.op_d + st.k * P.op_s)>>],
                !.cd = @ - 1,
                !.writes = Append(@, <<P.op_d + st.k * P.op_s, P.res_d + st.k * P.res_s>>),
                !.k = @ + 1], P, count)
    ELSE st

\* The branch taken when the result's inner stride is not 0
RECURSIVE CopyRuns(_, _, _)
CopyRuns(st, P, count) ==
    LET k1 == SkipRun(st.h, P, st.k, count)
        t == TransferRun([st EXCEPT !.k = k1], P, count)
    IN IF t.cd = 0 THEN [t EXCEPT !.stop = TRUE]
       ELSE IF t.k < count THEN CopyRuns(t, P, count)
       ELSE t

\* One pass of the do-while loop body over the run the iterator hands out
SeedRun(st, P, count) ==
    IF P.res_s = 0
    THEN CopyAtMostOne(st, P, 0, count)
    ELSE LET t == CopyRuns([h |-> st.h, cd |-> st.cd, stop |-> st.stop,
                            writes |-> st.writes, k |-> 0], P, count) IN
         [h |-> t.h, cd |-> t.cd, stop |-> t.stop, writes |-> t.writes]

\* Entry to the multi-dimensional skipna case: the private view with its own
\* mask, the flag array, and the iterator
Seeder_Begin ==
    /\ pc = "init"
    /\ ~args.assign_identity
    /\ UsesScatteredSeeder
    /\ ~(~args.reorderable /\ check_nonreorderable_axes(arr["operand"].nd, args.axis_flags))
    /\ LET operand == arr["operand"]
           res == arr[result]
           v == PyArray_AllocateMaskNA(PyArray_View(operand, "operand"), "view_mask")
           ini == [NullArr EXCEPT
                     !.nd = res.nd, !.dims = res.dims, !.buf = "initialized",
                     !.strides = [i \in Axes(res.nd) |-> res.strides[i] \div ElSize],
                     !.maskna_strides = [i \in Axes(res.nd) |-> 0]]
           h == [heap EXCEPT
                   !.view_mask = [off \in MaskOffsets(v) |->
                        LET c == CHOOSE c \in Coords(v.nd, v.dims) : MaskOff(v, c) = off
                        IN RdMask(heap[operand.mbuf], MaskOff(operand, c))],
                   !.initialized = [off \in DataOffsets(ini) |-> 0]]
       IN
       /\ events' = events \o <<"InitializeReduceResult", "ScatteredSeeder">>
       /\ arr' = [arr EXCEPT !["op_view"] = v, !["initialized"] = ini]
       /\ heap' = h
       /\ IF ~BroadcastOk(v, res)
          THEN /\ Fail("IteratorError", refcnt)
               /\ UNCHANGED seed
          ELSE \E perm \in Perms(v.nd) : \E coalesced \in BOOLEAN :
               LET ishape == IterShape(res, v)
                   n == RunTotal(v.nd, ishape, perm, coalesced)
               IN
               /\ coalesced => CanCoalesce(v.nd, ishape, perm, StreamStrides(v, res, ini))
               /\ seed' = [perm |-> perm, coalesced |-> coalesced, chunk |-> 0,
                           nchunks |-> n,
                           initialized_countdown |-> PyArray_SIZE(res),
                           writes |-> <<>>]
               /\ refcnt' = [refcnt EXCEPT !["op_view"] = 1, !["operand"] = @ + 1,
                                           !["initialized"] = 1,
                                           !["iter"] = 1, !["transferdata"] = 1]
               /\ pc' = IF n = 0 THEN "seed_end" ELSE "seed_loop"
               /\ UNCHANGED <<err, ret>>
    /\ UNCHANGED <<args, use_maskna, result, op_view, skip_first_count, orig>>

\* The seeder when PyArray_AssignZero(initialized) fails: the flag array is
\* released at once, then 'fail:' releases the view and the flag array, and
\* the wrapper's 'fail:' releases the result
Seeder_AssignZeroFails ==
    /\ pc = "init"
    /\ ~args.assign_identity
    /\ UsesScatteredSeeder
    /\ ~(~args.reorderable /\ check_nonreorderable_axes(arr["operand"].nd, args.axis_flags))
    /\ LET operand == arr["operand"]
           res == arr[result]
           v == PyArray_AllocateMaskNA(PyArray_View(operand, "operand"), "view_mask")
           ini == [NullArr EXCEPT
                     !.nd = res.nd, !.dims = res.dims, !.buf = "initialized",
                     !.strides = [i \in Axes(res.nd) |-> res.strides[i] \div ElSize],
                     !.maskna_strides = [i \in Axes(res.nd) |-> 0]]
           created == [refcnt EXCEPT !["op_view"] = 1, !["operand"] = @ + 1,
                                     !["initialized"] = 1]
           at336 == [created EXCEPT !["initialized"] = @ - 1]
           at503 == [at336 EXCEPT !["op_view"] = @ - 1, !["operand"] = @ - 1]
           at504 == [at503 EXCEPT !["initialized"] = @ - 1]
       IN
       /\ events' = events \o <<"InitializeReduceResult", "ScatteredSeeder">>
       /\ arr' = [arr EXCEPT !["op_view"] = v, !["initialized"] = ini]
       /\ heap' = [heap EXCEPT
                     !.view_mask = [off \in MaskOffsets(v) |->
                        LET c == CHOOSE c \in Coords(v.nd, v.dims) : MaskOff(v, c) = off
                        IN RdMask(heap[operand.mbuf], MaskOff(operand, c))]]
       /\ Fail("MemoryError", at504)
    /\ UNCHANGED <<args, use_maskna, result, op_view, skip_first_count, seed, orig>>

\* The pointers and strides the iterator hands out for run j
SeedPointers(v, res, ini, j) ==
    LET ishape == IterShape(res, v)
        c == RunCoord(v.nd, ishape, seed.perm, seed.coalesced, j)
        ss == StreamStrides(v, res, ini)
    IN [op_d |-> BDataOff(v, c), res_d |-> BDataOff(res, c),
        init_d |-> BDataOff(ini, c), op_namask_d |-> BMaskOff(v, c),
        op_s |-> InnerStride(v.nd, seed.perm, ss.op),
        res_s |-> InnerStride(v.nd, seed.perm, ss.res),
        init_s |-> InnerStride(v.nd, seed.perm, ss.ini),
        op_namask_s |-> InnerStride(v.nd, seed.perm, ss.msk),
        opbuf |-> v.buf, resbuf |-> res.buf]

\* One iteration of the outer do-while loop
Seeder_Chunk ==
    /\ pc = "seed_loop"
    /\ LET v == arr["op_view"]
           res == arr[result]
           ini == arr["initialized"]
           P == SeedPointers(v, res, ini, seed.chunk)
           count == RunCount(v.nd, IterShape(res, v), seed.perm, seed.coalesced)
           t == SeedRun([h |-> heap, cd |-> seed.initialized_countdown,
                         stop |-> FALSE, writes |-> seed.writes], P, count)
       IN
       /\ heap' = t.h
       /\ seed' = [seed EXCEPT !.chunk = @ + 1,
                               !.initialized_countdown = t.cd,
                               !.writes = t.writes]
       /\ pc' = IF t.stop \/ seed.chunk + 1 = seed.nchunks THEN "seed_end" ELSE "seed_loop"
    /\ UNCHANGED <<args, arr, use_maskna, result, op_view, skip_first_count,
                   ret, err, refcnt, events, orig>>

\* PyArray_AssignMaskNA(result, 1, ...): expose every cell
PyArray_AssignMaskNA(h, res) ==
    [h EXCEPT ![res.mbuf] =
        [off \in DOMAIN @ |-> IF off \in MaskOffsets(res) THEN TRUE ELSE @[off]]]

\* After the loop: the error check, the result's mask, the cleanup, and the
\* wrapper's handling of the returned view
Seeder_End ==
    /\ pc = "seed_end"
    /\ IF seed.initialized_countdown # 0
       THEN /\ Fail("AllMissingError", [refcnt EXCEPT !["op_view"] = 0, !["operand"] = @ - 1,
                                                      !["initialized"] = 0,
                                                      !["iter"] = 0, !["transferdata"] = 0])
            /\ UNCHANGED <<heap, op_view>>
       ELSE /\ heap' = IF PyArray_HASMASKNA(arr[result])
                       THEN PyArray_AssignMaskNA(heap, arr[result]) ELSE heap
            /\ IF PyArray_SIZE(arr["op_view"]) = 0
               THEN /\ op_view' = "NULL"
                    /\ refcnt' = [refcnt EXCEPT !["op_view"] = 0, !["operand"] = @ - 1,
                                                !["initialized"] = 0,
                                                !["iter"] = 0, !["transferdata"] = 0]
                    /\ pc' = "finish"
               ELSE /\ op_view' = "op_view"
                    /\ refcnt' = [refcnt EXCEPT !["initialized"] = 0,
                                                !["iter"] = 0, !["transferdata"] = 0]
                    /\ pc' = "loop"
            /\ UNCHANGED <<err, ret>>
    /\ UNCHANGED <<args, arr, use_maskna, result, skip_first_count, seed, events, orig>>

-----------------------------------------------------------------------------
\* The main loop and the end of the call

\* NpyIter_IsFirstVisit(iter, 0): no reduction axis of the result has moved yet
NpyIter_IsFirstVisit(res, c) == \A i \in Axes(res.nd) : res.dims[i] = 1 => c[i] = 0

\* The index tuple with C-order position k in a shape
CoordAt(nd, shape, k) ==
    [i \in Axes(nd) |-> (k \div ProdOver(shape, (i + 1) .. (nd - 1))) % shape[i]]

\* The caller's inner loop, run over elements k, k+1, ... of the iteration.
\* It combines each element it is shown into the element's result cell, leaving
\* out first visits while skip_first_count lasts.  'masked' says which mask,
\* if any, hides elements from it: "none", "operand" or "result".
\* st is [h, skip]
RECURSIVE InnerLoop(_, _, _, _, _, _)
InnerLoop(st, res, v, masked, k, n) ==
    IF k >= n THEN st
    ELSE LET c == CoordAt(res.nd, IterShape(res, v), k)
             shown == CASE masked = "operand" -> Exposed(st.h, v, c)
                        [] masked = "result" -> Exposed(st.h, res, c)
                        [] OTHER -> TRUE
         IN IF NpyIter_IsFirstVisit(res, c) /\ st.skip > 0
            THEN InnerLoop([st EXCEPT !.skip = @ - 1], res, v, masked, k + 1, n)
            ELSE IF shown
            THEN InnerLoop([st EXCEPT !.h[res.buf][BDataOff(res, c)] =
                                Append(@, Rd(st.h[v.buf], BDataOff(v, c)))],
                           res, v, masked, k + 1, n)
            ELSE InnerLoop(st, res, v, masked, k + 1, n)

\* Which inner loop the masking state selects
LoopVariant ==
    IF ~use_maskna THEN "loop"
    ELSE IF ~args.skipna /\ args.advanced_masked_loop THEN "advanced_masked_loop"
    ELSE "masked_loop"

\* Iterator set-up and the inner loop
RW_RunLoop ==
    /\ pc = "loop"
    /\ LET res == arr[result]
           v == arr[op_view]
           n == ProdOver(IterShape(res, v), Axes(res.nd))
           variant == LoopVariant
       IN
       IF ~BroadcastOk(res, v)
       THEN /\ Fail("IteratorError", refcnt)
            /\ UNCHANGED <<heap, events, op_view>>
       ELSE IF n # 0 /\ ~args[variant]
       THEN /\ Fail("ConfigurationError", refcnt)
            /\ UNCHANGED <<heap, events, op_view>>
       ELSE /\ IF n # 0
               THEN /\ events' = Append(events, variant)
                    /\ heap' = InnerLoop([h |-> heap, skip |-> skip_first_count], res, v,
                                         IF variant = "loop" THEN "none"
                                         ELSE IF args.skipna THEN "operand"
                                         ELSE "result",
                                         0, n).h
               ELSE UNCHANGED <<heap, events>>
            /\ refcnt' = Py_DECREF(refcnt, op_view)
            /\ op_view' = op_view
            /\ pc' = "finish"
            /\ UNCHANGED <<err, ret>>
    /\ UNCHANGED <<args, arr, use_maskna, result, skip_first_count, seed, orig>>

\* PyArray_RemoveAxesInPlace
PyArray_RemoveAxesInPlace(a, axis_flags) ==
    LET n == a.nd - NFlagged(a.nd, axis_flags) IN
    [a EXCEPT !.nd = n,
              !.dims = [k \in Axes(n) |-> a.dims[KthUnflagged(axis_flags, k, 0)]],
              !.strides = [k \in Axes(n) |-> a.strides[KthUnflagged(axis_flags, k, 0)]],
              !.maskna_strides =
                  [k \in Axes(n) |-> a.maskna_strides[KthUnflagged(axis_flags, k, 0)]]]

\* The 'finish:' label without the swap of 'result' for 'out': the conformed
\* view is what the caller gets back
RW_Finish_returns_view ==
    /\ pc = "finish"
    /\ arr' = IF args.out = "NULL" /\ ~args.keepdims
              THEN [arr EXCEPT ![result] =
                      PyArray_RemoveAxesInPlace(arr[result], args.axis_flags)]
              ELSE arr
    /\ ret' = result
    /\ pc' = "done"
    /\ UNCHANGED <<args, heap, use_maskna, result, op_view, skip_first_count, seed,
                   err, refcnt, events, orig>>

\* The 'finish:' label
RW_Finish ==
    /\ pc = "finish"
    /\ IF args.out = "NULL"
       THEN /\ arr' = IF ~args.keepdims
                      THEN [arr EXCEPT ![result] =
                              PyArray_RemoveAxesInPlace(arr[result], args.axis_flags)]
                      ELSE arr
            /\ result' = result
            /\ ret' = result
            /\ refcnt' = refcnt
       ELSE /\ arr' = arr
            /\ result' = args.out
            /\ ret' = args.out
            /\ refcnt' = Py_INCREF(Py_DECREF(refcnt, result), args.out)
    /\ pc' = "done"
    /\ UNCHANGED <<args, heap, use_maskna, op_view, skip_first_count, seed,
                   err, events, orig>>

-----------------------------------------------------------------------------
\* PyArray_CountReduceItems

\* Parameters of a call.  hasfields and maskna_bool describe the operand's
\* element type (PyArray_HASFIELDS) and its mask's type (NPY_BOOL or not).
CountArgs(a) ==
    [out : {"NULL"},
     axis_flags : [Axes(a.nd) -> BOOLEAN],
     skipna : BOOLEAN, keepdims : BOOLEAN,
     hasfields : BOOLEAN, maskna_bool : BOOLEAN]

CountInit ==
    \E a \in Operands : \E opmask \in MaskContents(a) : \E cargs \in CountArgs(a) :
        EntryAt("count", FALSE, a, opmask, NullArr, <<>>, cargs)

\* Variant: the product of all the dimensions
CountProduct_all_axes(a, axis_flags) == ProdOver(a.dims, Axes(a.nd))

\* The product of the reduction dimensions
CountProduct(a, axis_flags) == ProdOver(a.dims, {idim \in Axes(a.nd) : axis_flags[idim]})

\* The result with the strides of the reduction axes set to 0
ZeroReduceStrides(res, axis_flags) ==
    [res EXCEPT !.strides = [idim \in Axes(res.nd) |->
                                IF axis_flags[idim] THEN 0 ELSE res.strides[idim]]]

\* Variant: the raw iteration adds 1 for every element, hidden or not
RECURSIVE RawIterCount_counts_hidden(_, _, _, _, _)
RawIterCount_counts_hidden(h, a, res, k, n) ==
    IF k >= n THEN h
    ELSE LET c == CoordAt(a.nd, a.dims, k)
         IN RawIterCount_counts_hidden([h EXCEPT !.result[DataOff(res, c)] = @ + 1],
                                       a, res, k + 1, n)

\* The raw iteration over (operand mask, result) from element k on: each mask
\* byte is added to the result element its index tuple addresses
RECURSIVE RawIterCount(_, _, _, _, _)
RawIterCount(h, a, res, k, n) ==
    IF k >= n THEN h
    ELSE LET c == CoordAt(a.nd, a.dims, k)
             operand_d == RdMask(h[a.mbuf], MaskOff(a, c))
         IN RawIterCount([h EXCEPT !.result[DataOff(res, c)] =
                              @ + (IF operand_d THEN 1 ELSE 0)],
                         a, res, k + 1, n)

\* Up to the allocation and zero-filling of the array of counts; the scalar
\* case returns from here, its value kept in the result buffer
Count_Begin ==
    /\ pc = "count"
    /\ LET operand == arr["operand"] IN
       IF ~args.skipna \/ ~PyArray_HASMASKNA(operand)
       THEN /\ heap' = [heap EXCEPT !.result = (0 :> CountProduct(operand, args.axis_flags))]
            /\ ret' = "scalar"
            /\ pc' = "done"
            /\ UNCHANGED <<arr, result, err, refcnt>>
       ELSE IF args.hasfields \/ ~args.maskna_bool
       THEN /\ err' = "UnimplementedError"
            /\ ret' = "NULL"
            /\ pc' = "done"
            /\ UNCHANGED <<arr, heap, result, refcnt>>
       ELSE LET r == PyArray_CreateReduceResult(operand, "NULL", args.axis_flags,
                                                FALSE, args.keepdims)
                res == ZeroReduceStrides(r.view, args.axis_flags)
            IN /\ arr' = [arr EXCEPT !["result"] = res]
               /\ heap' = [heap EXCEPT !.result = [off \in DataOffsets(res) |-> 0]]
               /\ result' = "result"
               /\ refcnt' = [refcnt EXCEPT !["result"] = 1]
               /\ pc' = "count_loop"
               /\ UNCHANGED <<err, ret>>
    /\ UNCHANGED <<args, use_maskna, op_view, skip_first_count, seed, events, orig>>

\* The counting loop, the removal of the reduction axes, and the return
Count_Accumulate ==
    /\ pc = "count_loop"
    /\ heap' = RawIterCount(heap, arr["operand"], arr["result"], 0,
                            PyArray_SIZE(arr["operand"]))
    /\ arr' = IF ~args.keepdims
              THEN [arr EXCEPT !["result"] =
                      PyArray_RemoveAxesInPlace(arr["result"], args.axis_flags)]
              ELSE arr
    /\ ret' = "result"
    /\ pc' = "done"
    /\ UNCHANGED <<args, use_maskna, result, op_view, skip_first_count, seed,
                   err, refcnt, events, orig>>

-----------------------------------------------------------------------------
\* What a finished call returned

Succeeded == pc = "done" /\ err = "none"
Failed(e) == pc = "done" /\ err = e /\ ret = "NULL"

Operand0 == orig.arr["operand"]
Out0 == orig.arr["out"]
NFlags == NFlagged(Operand0.nd, args.axis_flags)

\* The shape the reduction has before reduced axes are dropped
KeptShape == [i \in Axes(Operand0.nd) |-> IF args.axis_flags[i] THEN 1 ELSE Operand0.dims[i]]

\* The operand elements that map to the output cell with kept-shape index r
MapsTo(r) ==
    {c \in Coords(Operand0.nd, Operand0.dims) :
        \A i \in Axes(Operand0.nd) : ~args.axis_flags[i] => c[i] = r[i]}

\* The returned array's index for kept-shape index r
RetIndex(r) ==
    IF arr[ret].nd = Operand0.nd THEN r
    ELSE [k \in Axes(arr[ret].nd) |-> r[KthUnflagged(args.axis_flags, k, 0)]]

\* The cell of the returned array for kept-shape index r
RetCell(r) == Rd(heap[arr[ret].buf], DataOff(arr[ret], RetIndex(r)))

OperandExposed(c) == Exposed(orig.heap, Operand0, c)

SeqToSet(q) == {q[i] : i \in 1 .. Len(q)}

\* The cell holds each of the given elements exactly once and nothing else
HoldsExactly(cell, elems) ==
    /\ Len(cell) = Cardinality(elems)
    /\ SeqToSet(cell) = {Val(Operand0, c) : c \in elems}

-----------------------------------------------------------------------------
\* Claims

\* C1: a successful call with an identity-based operation and no supplied
\* output returns, with keepdims, an array of the operand's dimensionality whose
\* flagged dimensions are 1 and whose other dimensions are the operand's; and
\* without keepdims, an array of the operand's non-flagged sizes in axis order.
C1_ResultShape ==
    (Succeeded /\ args.assign_identity /\ args.out = "NULL") =>
        IF args.keepdims
        THEN /\ arr[ret].nd = Operand0.nd
             /\ \A i \in Axes(Operand0.nd) :
                   arr[ret].dims[i] = IF args.axis_flags[i] THEN 1 ELSE Operand0.dims[i]
        ELSE /\ arr[ret].nd = Operand0.nd - NFlags
             /\ \A k \in Axes(Operand0.nd - NFlags) :
                   arr[ret].dims[k] = Operand0.dims[KthUnflagged(args.axis_flags, k, 0)]

\* A 2-d operand reduced over its first axis without keepdims came back 1-d
C1_Witness ==
    /\ Succeeded /\ args.assign_identity /\ args.out = "NULL" /\ ~args.keepdims
    /\ Operand0.nd = 2 /\ Operand0.dims[0] = 2 /\ Operand0.dims[1] = 2
    /\ args.axis_flags[0] /\ ~args.axis_flags[1]
    /\ arr[ret].nd = 1 /\ arr[ret].dims[0] = 2

\* C2: a successful call with a caller-supplied output returns that very
\* object, and the object's shape and dimensionality are what they were.
C2_ReturnsOut ==
    (Succeeded /\ args.out # "NULL") => (ret = "out" /\ arr["out"] = Out0)

\* The all-hidden short-circuit was taken with an output that had to be
\* conformed into a view
C2_Witness ==
    /\ Succeeded /\ args.out # "NULL" /\ ~args.keepdims /\ NFlags > 0
    /\ events = <<"CreateReduceResult", "ReduceMaskNAArray">>
    /\ ret = "out"

\* C3 (as stated): for an operand without a mask and a reorderable operation,
\* every output cell holds exactly the operand elements that map to it, each
\* once.
C3_EachElementOnce ==
    (Succeeded /\ ~Operand0.hasmask /\ args.reorderable /\ args.out = "NULL") =>
        \A r \in Coords(Operand0.nd, KeptShape) : HoldsExactly(RetCell(r), MapsTo(r))

\* C4: reducing a zero-size operand with an identity-based operation succeeds
\* with every output cell holding the identity, and with a no-identity
\* operation fails with EmptyReductionError, whatever the mask presence, skipna
\* and flagged axes (calls the axis rule of a non-reorderable operation admits)
ZeroSizeCall ==
    /\ pc = "done"
    /\ PyArray_SIZE(Operand0) = 0
    /\ args.out = "NULL"
    /\ (args.reorderable \/ NFlags <= 1)

C4_ZeroSize ==
    ZeroSizeCall =>
        IF args.assign_identity
        THEN /\ Succeeded
             /\ \A r \in Coords(Operand0.nd, KeptShape) : RetCell(r) = Identity
        ELSE Failed("EmptyReductionError")

\* C5: a one-dimensional masked operand reduced along its axis with skipna and
\* a no-identity operation.  With every element hidden the call fails with
\* AllMissingError.  Otherwise the seed put into the result is the first exposed
\* element, the remainder view is exactly the elements after it, and the
\* returned cell holds the exposed elements and nothing else, each once.
OneDimSkipnaCall ==
    /\ Operand0.nd = 1 /\ Operand0.hasmask
    /\ args.skipna /\ ~args.assign_identity
    /\ args.axis_flags[0] /\ args.out = "NULL"

ExposedElements == {c \in Coords(Operand0.nd, Operand0.dims) : OperandExposed(c)}

\* The index of the first exposed element
FirstExposed ==
    CHOOSE i \in 0 .. MaxSize :
        /\ [x \in Axes(1) |-> i] \in ExposedElements
        /\ \A c \in ExposedElements : c[0] >= i

\* PyArray_InitializeReduceResult has just returned to the wrapper
AfterInitializeReduceResult ==
    /\ pc \in {"loop", "finish"}
    /\ events # <<>> /\ events[Len(events)] = "InitializeReduceResult"

SeederSucceeded ==
    /\ pc \in {"loop", "finish"}
    /\ events # <<>> /\ events[Len(events)] = "ScatteredSeeder"

\* Index tuples of the iteration over (operand view, result)
IterCoords == Coords(arr[result].nd, IterShape(arr[result], arr["op_view"]))

\* Position of an index tuple in the iterator's visitation order: the axes are
\* nested in the order seed.perm, the last one innermost
IterPos(c) ==
    LET nd == arr[result].nd
        ishape == IterShape(arr[result], arr["op_view"])
    IN SumOver([k \in Axes(nd) |->
                  c[seed.perm[k]] *
                  ProdOver([m \in Axes(nd) |-> ishape[seed.perm[m]]], (k + 1) .. (nd - 1))],
               Axes(nd))

\* The exposed operand elements that map to the result cell at a byte offset
ExposedInto(off) ==
    {c \in IterCoords :
        /\ BDataOff(arr[result], c) = off
        /\ Exposed(orig.heap, Operand0, c)}

\* The first of them in visitation order
FirstSeen(off) ==
    CHOOSE c \in ExposedInto(off) : \A d \in ExposedInto(off) : IterPos(c) <= IterPos(d)

\* The copies made into the result cell at a byte offset
WritesInto(off) == {i \in 1 .. Len(seed.writes) : seed.writes[i][2] = off}

\* C6: when the multi-dimensional skipna initialisation succeeds, every output
\* cell holds the first exposed operand element, in the iterator's visitation
\* order, among the elements mapping to it, and was written exactly once,
\* however the iteration was cut into runs and whatever the result's inner stride
C6_FirstExposedSeed ==
    SeederSucceeded =>
        \A off \in DataOffsets(arr[result]) :
            /\ ExposedInto(off) # {}
            /\ Rd(heap[arr[result].buf], off) =
                  <<Rd(orig.heap.operand, BDataOff(Operand0, FirstSeen(off)))>>
            /\ Cardinality(WritesInto(off)) = 1
            /\ \A i \in WritesInto(off) :
                  seed.writes[i][1] = BDataOff(Operand0, FirstSeen(off))

\* [[NA,2],[3,4]] reduced over axis 0, visited row by row: the first run seeds
\* the second cell with 2, the second run seeds the first cell with 3
C6_Witness ==
    /\ SeederSucceeded
    /\ Operand0.nd = 2 /\ Operand0.dims[0] = 2 /\ Operand0.dims[1] = 2
    /\ args.axis_flags[0] /\ ~args.axis_flags[1]
    /\ seed.perm[1] = 1 /\ ~seed.coalesced /\ seed.chunk = 2
    /\ Len(seed.writes) = 2
    /\ {Rd(heap[arr[result].buf], off) : off \in DataOffsets(arr[result])} = {<<2>>, <<3>>}

\* C7: when the multi-dimensional skipna initialisation succeeds, every operand
\* element copied as a seed is hidden in the private mask of the returned view,
\* so the masked main loop combines no seed element a second time
SeedsHidden ==
    \A i \in 1 .. Len(seed.writes) :
        \A c \in Coords(arr["op_view"].nd, arr["op_view"].dims) :
            DataOff(arr["op_view"], c) = seed.writes[i][1] =>
                ~NpyMaskValue_IsExposed(RdMask(heap.view_mask, MaskOff(arr["op_view"], c)))

C7_SeedsHidden ==
    /\ SeederSucceeded => SeedsHidden
    /\ (Succeeded /\ Len(events) >= 3 /\ events[3] = "ScatteredSeeder" /\ args.out = "NULL") =>
          \A r \in Coords(Operand0.nd, KeptShape) :
              HoldsExactly(RetCell(r), {c \in MapsTo(r) : OperandExposed(c)})

\* C8: the multi-dimensional skipna initialisation fails with AllMissingError
\* exactly when some output cell has no exposed operand element mapping to it;
\* when it succeeds every cell is flagged and the countdown is 0; and the
\* countdown always equals the number of cells whose flag is still 0
Unflagged == {off \in DOMAIN heap.initialized : heap.initialized[off] = 0}

SomeCellAllHidden == \E off \in DataOffsets(arr[result]) : ExposedInto(off) = {}

C8_Countdown ==
    /\ pc \in {"seed_loop", "seed_end"} =>
          seed.initialized_countdown = Cardinality(Unflagged)
    /\ pc = "seed_end" => (seed.initialized_countdown # 0 <=> SomeCellAllHidden)
    /\ (pc = "done" /\ events # <<>> /\ events[Len(events)] = "ScatteredSeeder"
          /\ err \notin {"none", "IteratorError"}) =>
          (Failed("AllMissingError") /\ SomeCellAllHidden)
    /\ SeederSucceeded =>
          /\ ~SomeCellAllHidden
          /\ Unflagged = {}
          /\ seed.initialized_countdown = 0

\* [[NA,2],[NA,NA]] reduced over axis 1: the second cell is never seeded
C8_Witness ==
    /\ Failed("AllMissingError")
    /\ events # <<>> /\ events[Len(events)] = "ScatteredSeeder"
    /\ Operand0.nd = 2 /\ Operand0.dims[0] = 2 /\ Operand0.dims[1] = 2
    /\ args.axis_flags[1] /\ ~args.axis_flags[0]
    /\ seed.initialized_countdown = 1
    /\ Cardinality(Unflagged) = 1
    /\ Len(seed.writes) = 1

\* C9: a masked operand, a supplied output without a mask, and skipna false.
\* If the operand has a hidden element the call fails with MaskSupportError.
\* Otherwise masking is dropped for the whole call: no mask is required of the
\* output, the mask is not reduced, and the unmasked inner loop is the one run.
MaskedToMasklessCall ==
    /\ Operand0.hasmask /\ ~args.skipna
    /\ args.out # "NULL" /\ ~Out0.hasmask
    /\ ~args.wheremask /\ ~args.skipwhichna

OperandHasHidden == \E c \in Coords(Operand0.nd, Operand0.dims) : ~OperandExposed(c)

EventsSet == {events[i] : i \in 1 .. Len(events)}

C9_MaskDropped ==
    MaskedToMasklessCall =>
        IF OperandHasHidden
        THEN /\ pc = "done" => Failed("MaskSupportError")
             /\ EventsSet \subseteq {"ContainsNA"}
        ELSE /\ pc \notin {"validate", "maskcheck"} => ~use_maskna
             /\ err # "MaskSupportError"
             /\ EventsSet \cap {"ReduceMaskNAArray", "masked_loop", "advanced_masked_loop",
                                "ScatteredSeeder"} = {}

\* A fully exposed masked 2x2 operand summed over axis 1 into a maskless output
C9_Witness ==
    /\ MaskedToMasklessCall /\ ~OperandHasHidden /\ Succeeded
    /\ Operand0.nd = 2 /\ PyArray_SIZE(Operand0) = 4
    /\ args.axis_flags[1] /\ ~args.axis_flags[0] /\ args.assign_identity
    /\ events = <<"ContainsNA", "CreateReduceResult", "assign_identity", "loop">>
    /\ ~use_maskna

\* C10: conform_reduce_result with keepdims succeeds exactly when the output
\* has the operand's number of dimensions and size 1 on every flagged axis; it
\* then hands back the output object itself with one more reference and with
\* shape, strides and mask untouched; otherwise it fails with ShapeError.
\* (Observed as PyArray_CreateReduceResult returns to the wrapper, in the calls
\* that get past its own check of the output's mask.)
ConformKeepdimsCalled ==
    /\ args.out # "NULL" /\ args.keepdims
    /\ \/ pc = "reducemask"
       \/ pc = "done" /\ result = "NULL"
    /\ events # <<>> /\ events[Len(events)] = "CreateReduceResult"
    /\ ~(~args.skipna /\ use_maskna /\ ~Out0.hasmask)

C10_ConformKeepdims ==
    ConformKeepdimsCalled =>
        IF /\ Out0.nd = Operand0.nd
           /\ \A i \in Axes(Operand0.nd) : args.axis_flags[i] => Out0.dims[i] = 1
        THEN /\ pc = "reducemask" /\ err = "none"
             /\ result = "out"
             /\ arr["out"] = Out0
             /\ heap.out = orig.heap.out /\ heap.out_mask = orig.heap.out_mask
             /\ refcnt["out"] = 2 /\ refcnt["result"] = 0
        ELSE Failed("ShapeError")

\* A (2,1) output for a 2x2 operand reduced over axis 1
C10_Witness ==
    /\ ConformKeepdimsCalled /\ pc = "reducemask"
    /\ Operand0.nd = 2 /\ Operand0.dims[0] = 2 /\ Operand0.dims[1] = 2
    /\ args.axis_flags[1] /\ ~args.axis_flags[0]
    /\ Out0.nd = 2 /\ Out0.dims[0] = 2 /\ Out0.dims[1] = 1
    /\ result = "out" /\ refcnt["out"] = 2

\* C11: conform_reduce_result without keepdims succeeds exactly when the
\* output's number of dimensions is the number of non-flagged axes, and fails
\* with ShapeError otherwise.  The view it returns has the operand's number of
\* dimensions, size 1 and stride 0 at each flagged axis and the output's k-th
\* size and stride at the k-th non-flagged axis, mask strides laid out the
\* same way when the output has a mask, and it shares the output's data and
\* mask with the output as its base.
\* (Observed as PyArray_CreateReduceResult returns to the wrapper, in the calls
\* that get past its own check of the output's mask.)
ConformViewCalled ==
    /\ args.out # "NULL" /\ ~args.keepdims
    /\ \/ pc = "reducemask"
       \/ pc = "done" /\ result = "NULL"
    /\ events # <<>> /\ events[Len(events)] = "CreateReduceResult"
    /\ ~(~args.skipna /\ use_maskna /\ ~Out0.hasmask)

\* Number of non-flagged axes before axis i
UnflaggedBefore(i) == Cardinality({j \in Axes(Operand0.nd) : j < i /\ ~args.axis_flags[j]})

C11_ConformView ==
    ConformViewCalled =>
        IF Out0.nd = Operand0.nd - NFlags
        THEN /\ pc = "reducemask" /\ err = "none"
             /\ result = "result"
             /\ arr["result"].nd = Operand0.nd
             /\ \A i \in Axes(Operand0.nd) :
                   IF args.axis_flags[i]
                   THEN /\ arr["result"].dims[i] = 1
                        /\ arr["result"].strides[i] = 0
                        /\ arr["result"].maskna_strides[i] = 0
                   ELSE /\ arr["result"].dims[i] = Out0.dims[UnflaggedBefore(i)]
                        /\ arr["result"].strides[i] = Out0.strides[UnflaggedBefore(i)]
                        /\ Out0.hasmask =>
                              arr["result"].maskna_strides[i] =
                                  Out0.maskna_strides[UnflaggedBefore(i)]
             /\ arr["result"].data = Out0.data /\ arr["result"].buf = Out0.buf
             /\ arr["result"].hasmask = Out0.hasmask
             /\ Out0.hasmask =>
                   /\ arr["result"].maskna_data = Out0.maskna_data
                   /\ arr["result"].mbuf = Out0.mbuf
             /\ arr["result"].base = "out"
             /\ arr["out"] = Out0
             /\ refcnt["out"] = 2 /\ refcnt["result"] = 1
        ELSE Failed("ShapeError")

\* A masked output of shape (2,) conformed for a 2x2 operand reduced over axis 0
C11_Witness ==
    /\ ConformViewCalled /\ pc = "reducemask"
    /\ Operand0.nd = 2 /\ Operand0.dims[0] = 2 /\ Operand0.dims[1] = 2
    /\ args.axis_flags[0] /\ ~args.axis_flags[1]
    /\ Out0.nd = 1 /\ Out0.dims[0] = 2 /\ Out0.hasmask
    /\ arr["result"].nd = 2
    /\ arr["result"].strides[0] = 0 /\ arr["result"].strides[1] = ElSize
    /\ arr["result"].maskna_strides[1] = MaskElSize

\* C12: PyArray_CreateReduceResult called with masking required.  A result it
\* returns has a mask: a new one with every cell exposed when no output was
\* supplied, the output's own when one was.  It fails with MaskSupportError
\* exactly when masking is required and the supplied output has no mask.
NeedNamask == ~args.skipna /\ use_maskna

FactoryReturned == pc # "create"

C12_MaskAttached ==
    FactoryReturned =>
        /\ err = "MaskSupportError" <=>
              (NeedNamask /\ args.out # "NULL" /\ ~Out0.hasmask)
        /\ err = "MaskSupportError" => (ret = "NULL" /\ result = "NULL")
        /\ (NeedNamask /\ err = "none") =>
              /\ PyArray_HASMASKNA(arr[result])
              /\ IF args.out = "NULL"
                 THEN /\ arr[result].mbuf = "result_mask"
                      /\ \A c \in Coords(arr[result].nd, arr[result].dims) :
                            /\ MaskOff(arr[result], c) \in DOMAIN heap.result_mask
                            /\ NpyMaskValue_IsExposed(
                                  RdMask(heap.result_mask, MaskOff(arr[result], c)))
                 ELSE /\ arr[result].mbuf = Out0.mbuf
                      /\ arr[result].maskna_data = Out0.maskna_data
                      /\ heap.out_mask = orig.heap.out_mask

\* A new (2,1) result with its own mask for a 2x2 operand reduced over axis 1
C12_Witness ==
    /\ FactoryReturned /\ NeedNamask /\ err = "none"
    /\ args.out = "NULL"
    /\ Operand0.nd = 2 /\ Operand0.dims[0] = 2 /\ Operand0.dims[1] = 2
    /\ args.axis_flags[1] /\ ~args.axis_flags[0]
    /\ arr[result].hasmask /\ arr[result].mbuf = "result_mask"
    /\ Cardinality(DOMAIN heap.result_mask) = 2

\* C13: PyArray_CountReduceItems on an operand without a mask, or with skipna
\* false, returns one scalar: the product of the sizes of the flagged axes (1
\* with no axis flagged, 0 with a flagged axis of size 0), whatever keepdims
\* and the sizes of the other axes are
PlainCountCall == ~Operand0.hasmask \/ ~args.skipna

\* The index tuples of the flagged axes alone
FlaggedIndices ==
    {c \in [Axes(Operand0.nd) -> 0 .. MaxSize] :
        \A i \in Axes(Operand0.nd) :
            IF args.axis_flags[i] THEN c[i] < Operand0.dims[i] ELSE c[i] = 0}

C13_ScalarCount ==
    (pc = "done" /\ PlainCountCall) =>
        /\ err = "none" /\ ret = "scalar" /\ result = "NULL"
        /\ DOMAIN heap.result = {0}
        /\ heap.result[0] = Cardinality(FlaggedIndices)
        /\ NFlags = 0 => heap.result[0] = 1
        /\ (\E i \in Axes(Operand0.nd) : args.axis_flags[i] /\ Operand0.dims[i] = 0)
              => heap.result[0] = 0

C13_Witness ==
    /\ pc = "done" /\ PlainCountCall /\ ret = "scalar"
    /\ Operand0.nd = 2 /\ Operand0.dims[0] = 2 /\ Operand0.dims[1] = 2
    /\ args.axis_flags[0] /\ ~args.axis_flags[1] /\ args.keepdims
    /\ Operand0.hasmask /\ ~args.skipna
    /\ heap.result[0] = 2

\* C14: PyArray_CountReduceItems on an operand with a boolean mask and skipna
\* true returns an array whose every cell holds the number of exposed operand
\* elements that map to it, the cells adding up to the number of exposed
\* elements; a structured element type or a non-boolean mask fails with
\* UnimplementedError and no count is produced
MaskedCountCall == Operand0.hasmask /\ args.skipna

CountUnimplemented == args.hasfields \/ ~args.maskna_bool

ExposedInCell(r) == Cardinality({c \in MapsTo(r) : OperandExposed(c)})

C14_ExposedCount ==
    (pc = "done" /\ MaskedCountCall) =>
        IF CountUnimplemented
        THEN /\ err = "UnimplementedError" /\ ret = "NULL" /\ result = "NULL"
             /\ heap = orig.heap
        ELSE /\ err = "none" /\ ret = "result"
             /\ arr[ret].dims = ExpectedOut(Operand0, args, FALSE).dims
             /\ \A r \in Coords(Operand0.nd, KeptShape) : RetCell(r) = ExposedInCell(r)
             /\ SumOver([off \in DataOffsets(arr[ret]) |-> heap.result[off]],
                        DataOffsets(arr[ret]))
                  = Cardinality({c \in Coords(Operand0.nd, Operand0.dims) : OperandExposed(c)})

C14_Witness ==
    /\ pc = "done" /\ MaskedCountCall /\ ~CountUnimplemented /\ ret = "result"
    /\ Operand0.nd = 2 /\ Operand0.dims[0] = 2 /\ Operand0.dims[1] = 2
    /\ args.axis_flags[1] /\ ~args.axis_flags[0] /\ ~args.keepdims
    /\ arr[ret].nd = 1
    /\ heap.result[DataOff(arr[ret], [x \in Axes(1) |-> 0])] = 1
    /\ heap.result[DataOff(arr[ret], [x \in Axes(1) |-> 1])] = 2

\* C15: whatever PyArray_ReduceWrapper, PyArray_InitializeReduceResult and the
\* scattered seeder do, and however they end, the caller's operand keeps its
\* shape, strides, data origin, element values, mask origin and every mask bit
C15_OperandUnchanged ==
    /\ arr["operand"] = Operand0
    /\ heap.operand = orig.heap.operand
    /\ heap.operand_mask = orig.heap.operand_mask

\* A skipna call on a masked 2-D operand that went through the seeder, whose
\* view was cut down and whose private mask copy exists, with hidden elements
C15_Witness ==
    /\ Succeeded
    /\ "ScatteredSeeder" \in SeqToSet(events)
    /\ \E c \in Coords(Operand0.nd, Operand0.dims) : ~OperandExposed(c)
    /\ arr["op_view"].nd = Operand0.nd
    /\ DOMAIN heap.view_mask # {}

\* C16: a call that is not reorderable and flags more than one axis never
\* succeeds, and nothing is done for it: PyArray_ReduceMaskNAArray does not
\* write the output's mask, no result value is initialised and no inner loop
\* runs before the failure is raised
NonReorderableCall == ~args.reorderable /\ NFlags > 1

WorkEvents == {"ReduceMaskNAArray", "assign_identity", "ScatteredSeeder",
               "loop", "masked_loop", "advanced_masked_loop"}

C16_NonReorderableFailsFirst ==
    NonReorderableCall =>
        /\ ~Succeeded
        /\ SeqToSet(events) \cap WorkEvents = {}
        /\ heap.out = orig.heap.out /\ heap.out_mask = orig.heap.out_mask
        /\ \A off \in DOMAIN heap.result : heap.result[off] = Garbage

\* C17: a call of PyArray_ReduceWrapper invokes at most one inner loop, at
\* most once, and the one its masking state selects: the unmasked loop
\* without masking, the advanced masked loop with masking, skipna false and
\* an advanced loop supplied, the masked loop otherwise; a call whose
\* selected loop was not supplied fails, with ConfigurationError unless an
\* earlier step failed, and runs no loop
LoopEvents == {"loop", "masked_loop", "advanced_masked_loop"}

LoopCalls == {i \in 1 .. Len(events) : events[i] \in LoopEvents}

C17_LoopSelection ==
    /\ Cardinality(LoopCalls) <= 1
    /\ \A i \in LoopCalls : events[i] = LoopVariant /\ args[events[i]]
    /\ (pc = "done" /\ ~args[LoopVariant])
         => /\ err # "none" /\ ret = "NULL" /\ LoopCalls = {}
            /\ op_view # "NULL" => err = "ConfigurationError"

\* C18: on every path through PyArray_ReduceWrapper and the seeder, each
\* object made for the call (result, remainder view, private view, flag
\* array, iterator, transfer data) is released exactly once, never twice and
\* never left held; a failed call returns nothing; the operand and a
\* caller's output end with the references they had, plus the returned one on
\* success
C18_ReleasedOnce ==
    /\ \A id \in Resources : refcnt[id] >= 0
    /\ pc = "done" =>
          /\ \A id \in {"op_view", "initialized", "iter", "transferdata"} : refcnt[id] = 0
          /\ refcnt["operand"] = 1
          /\ err # "none" =>
                /\ ret = "NULL" /\ refcnt["result"] = 0
                /\ refcnt["out"] = IF args.out = "NULL" THEN 0 ELSE 1
          /\ err = "none" =>
                IF args.out = "NULL"
                THEN ret = "result" /\ refcnt["result"] = 1 /\ refcnt["out"] = 0
                ELSE ret = "out" /\ refcnt["out"] = 2 /\ refcnt["result"] = 0

\* C19: the array allocate_reduce_result makes has the operand's ndim; its
\* flagged axes have size 1 and stride 0; its other axes keep the operand's
\* sizes and are packed in the order of the operand's stride magnitudes, the
\* smallest getting the element size and each next one the previous stride
\* times the previous size; distinct indices have distinct offsets
AllocatedResult == pc # "create" /\ err = "none" /\ args.out = "NULL"

KeptAxes == {i \in Axes(Operand0.nd) : ~args.axis_flags[i]}

\* Rankings of the axes that agree with the operand's stride magnitudes
StrideRankings ==
    {p \in Perms(Operand0.nd) :
        \A i, j \in KeptAxes :
            Abs(Operand0.strides[i]) < Abs(Operand0.strides[j]) => p[i] < p[j]}

C19_PackedLayout ==
    AllocatedResult =>
        LET r == arr[result] IN
        /\ r.nd = Operand0.nd
        /\ \A i \in Axes(r.nd) :
              IF args.axis_flags[i] THEN r.dims[i] = 1 /\ r.strides[i] = 0
              ELSE r.dims[i] = Operand0.dims[i]
        /\ \E p \in StrideRankings : \A i \in KeptAxes :
              r.strides[i] = ElSize * ProdOver(Operand0.dims,
                                               {j \in KeptAxes : p[j] < p[i]})
        /\ \A c1, c2 \in Coords(r.nd, r.dims) :
              c1 # c2 => DataOff(r, c1) # DataOff(r, c2)

\* A 2x2 operand in Fortran order, no axis flagged: the result is laid out in
\* Fortran order too
C19_Witness ==
    /\ AllocatedResult
    /\ Operand0.nd = 2 /\ Operand0.dims[0] = 2 /\ Operand0.dims[1] = 2
    /\ Operand0.strides[0] < Operand0.strides[1]
    /\ KeptAxes = {0, 1}
    /\ arr[result].strides[0] = ElSize /\ arr[result].strides[1] = 2 * ElSize

\* C20: PyArray_InitializeReduceResult leaves skip_first_count at the number
\* of output cells, and hands back the operand itself, exactly when it seeds
\* on the path without mask or skipna and more than one axis is flagged; on
\* every other successful path, and when the identity is used, it is 0
InitializationDone == pc \in {"loop", "finish"} \/ Succeeded

SeededWholeFirst ==
    /\ "InitializeReduceResult" \in SeqToSet(events)
    /\ ~args.skipna \/ ~PyArray_HASMASKNA(Operand0)
    /\ NFlags > 1

OutputCells == Cardinality(Coords(Operand0.nd, KeptShape))

C20_SkipFirstCount ==
    InitializationDone =>
        IF SeededWholeFirst
        THEN /\ skip_first_count = OutputCells
             /\ pc = "loop" => (op_view = "operand" /\ arr[op_view] = Operand0)
        ELSE /\ skip_first_count = 0
             /\ pc = "loop" =>
                   (op_view = "operand" <=> "assign_identity" \in SeqToSet(events))

\* A 2x1x1 operand reduced over its last two axes: two output cells
C20_Witness ==
    /\ pc = "loop" /\ SeededWholeFirst
    /\ Operand0.nd = 3 /\ Operand0.dims[0] = 2
    /\ ~args.axis_flags[0] /\ args.axis_flags[1] /\ args.axis_flags[2]
    /\ skip_first_count = 2
    /\ op_view = "operand"

\* C21: when no axis is flagged and there is no identity, once
\* PyArray_InitializeReduceResult has returned the result holds a copy of the
\* operand and the remainder view has no element, for operands of every
\* dimensionality, 0 included; the wrapper runs no inner loop and every cell
\* ends with its one element, once
ZeroAxesSeeded ==
    /\ ~args.assign_identity /\ NFlags = 0
    /\ "InitializeReduceResult" \in SeqToSet(events)
    /\ pc \in {"loop", "finish", "done"} /\ err = "none"

C21_EmptyRemainder ==
    ZeroAxesSeeded =>
        /\ PyArray_SIZE(arr["op_view"]) = 0
        /\ pc # "loop" /\ LoopCalls = {}
        /\ (Succeeded /\ args.out = "NULL") =>
              \A r \in Coords(Operand0.nd, KeptShape) :
                  (\A c \in MapsTo(r) : OperandExposed(c))
                      => HoldsExactly(RetCell(r), MapsTo(r))

\* C22: with masking in use and skipna false, PyArray_ReduceMaskNAArray
\* reduces the mask before any result value is initialised or accumulated;
\* if the result is then one hidden cell and no advanced masked loop was
\* supplied the call finishes with success and neither the identity, nor
\* the first-element initialisation, nor an inner loop is called; otherwise
\* the computation of the values goes on
MaskedNoSkip == use_maskna /\ ~args.skipna /\ pc \notin {"validate", "maskcheck"}

ValueEvents == {"assign_identity", "InitializeReduceResult", "ScatteredSeeder"} \cup LoopEvents

MaskReduced ==
    /\ MaskedNoSkip
    /\ "ReduceMaskNAArray" \in SeqToSet(events)
    /\ ~(pc = "done" /\ err = "BroadcastError" /\ Len(events) = 2)

OneHiddenCell ==
    /\ ~args.advanced_masked_loop
    /\ PyArray_SIZE(arr[result]) = 1
    /\ ~NpyMaskValue_IsExposed(RdMask(heap[arr[result].mbuf], arr[result].maskna_data))

NoValueWritten ==
    /\ heap.out = orig.heap.out
    /\ \A off \in DOMAIN heap.result : heap.result[off] = Garbage

C22_MaskFirst ==
    /\ MaskedNoSkip =>
          /\ \A i \in 1 .. Len(events) :
                events[i] \in ValueEvents =>
                    \E j \in 1 .. (i - 1) : events[j] = "ReduceMaskNAArray"
          /\ pc \in {"create", "reducemask"} => NoValueWritten
    /\ (MaskReduced /\ OneHiddenCell) =>
          /\ pc \in {"finish", "done"} /\ err = "none"
          /\ SeqToSet(events) \cap ValueEvents = {}
          /\ NoValueWritten
          /\ pc = "done" => ret # "NULL"
    /\ (MaskReduced /\ ~OneHiddenCell /\ SeqToSet(events) \cap ValueEvents = {}) =>
          (pc = "init" \/ (pc = "done" /\ err = "NotReorderableError"))

\* A 1-D operand of two elements, one hidden, reduced to one hidden cell
C22_Witness ==
    /\ Succeeded /\ MaskReduced /\ OneHiddenCell
    /\ Operand0.nd = 1 /\ Operand0.dims[0] = 2 /\ args.axis_flags[0]
    /\ OperandExposed([x \in Axes(1) |-> 0]) /\ ~OperandExposed([x \in Axes(1) |-> 1])
    /\ events = <<"CreateReduceResult", "ReduceMaskNAArray">>

Next ==
    \/ RW_Validate
    \/ RW_MaskCheck
    \/ RW_CreateResult
    \/ RW_ReduceMask
    \/ RW_AssignIdentity
    \/ RW_InitializeReduceResult
    \/ Seeder_Begin
    \/ Seeder_Chunk
    \/ Seeder_End
    \/ RW_RunLoop
    \/ RW_Finish

Spec == Init /\ [][Next]_vars

\* Direct calls of PyArray_CreateReduceResult: the call at line 853 entered
\* with every combination of skipna and use_maskna, so that need_namask takes
\* both values whatever the output
FactoryInit ==
    \E a \in Operands : \E opmask \in MaskContents(a) :
    \E cargs \in CallArgs(a, {"NULL", "out"}) : \E um \in BOOLEAN :
    \E o \in OutputsFor(a, opmask, cargs) : \E omask \in OutMaskContents(o) :
        EntryAt("create", um, a, opmask, o, omask, cargs)

SpecFactory == FactoryInit /\ [][RW_CreateResult]_vars

\* Calls without an output in which the unmasked and the masked loop may be
\* missing
LoopsInit ==
    \E a \in Operands : \E opmask \in MaskContents(a) :
    \E cargs \in CallArgs(a, {"NULL"}) : \E lp, mlp \in BOOLEAN :
        Entry(a, opmask, NullArr, <<>>, [cargs EXCEPT !.loop = lp, !.masked_loop = mlp])

SpecLoops == LoopsInit /\ [][Next]_vars

\* Calls in which PyArray_AssignZero may fail in the seeder
SpecRelease == Init /\ [][Next \/ Seeder_AssignZeroFails]_vars

\* Calls on operands of one more dimension than MaxNdim, every side at least 1
SkipOperands ==
    {NewArray(MaxNdim + 1, d, "C", "operand", hm, "operand_mask") :
        d \in {d \in [Axes(MaxNdim + 1) -> 1 .. MaxDim] :
                  ProdOver(d, Axes(MaxNdim + 1)) <= MaxSize},
        hm \in BOOLEAN}

SkipInit ==
    \E a \in SkipOperands : \E opmask \in MaskContents(a) :
    \E cargs \in CallArgs(a, {"NULL"}) :
        Entry(a, opmask, NullArr, <<>>, cargs)

SpecSkip == SkipInit /\ [][Next]_vars

SpecCount == CountInit /\ [][Count_Begin \/ Count_Accumulate]_vars

====
